---- MODULE Spec2Model ----
(***************************************************************************)
(* Product search query layer of pg_search_tests (web_app/api/queries.rs): *)
(* the three search modes (BM25, vector, hybrid) over the items table,     *)
(* their count and facet queries, and a caller that issues requests.       *)
(*                                                                         *)
(* Numbers.  Scores and cosine distances are fixed-point integers in units *)
(* of 1/ScoreScale (1e-4); a float8 product by 0.3 or 0.7 is the exact     *)
(* product truncated to that unit.  Prices are in cents, ratings in        *)
(* hundredths.  An Option<T> or a nullable SQL value is a sequence of      *)
(* length 0 (None, NULL) or 1 (Some(x)).                                   *)
(*                                                                         *)
(* Strings.  A query string is a sequence of symbols: " " (a whitespace    *)
(* character), "*" (the asterisk) or a word.  Words are atomic.            *)
(***************************************************************************)
EXTENDS Integers, Sequences, FiniteSets, TLC

VARIABLES
    catalog,    \* the items table: a sequence of rows, row i has id i
    pc,         \* "idle": no request in flight; "done": a response is held
    req,        \* the request of the last call: [mode, query, filters]
    resp,       \* the SearchResults of the last call
    call,       \* what the last call sent to and got from the engine
    prev,       \* the caller's memory of the call before, when it re-issued
    ui,         \* the signals of SearchPage
    pager,      \* a Pagination component on its own: its props and its page
    db,         \* the statics of api/db.rs and the threads that call into it
    tasks       \* search calls running concurrently on one pool

vars == <<catalog, pc, req, resp, call, prev, ui, pager, db, tasks>>

\* ------------------------------------------------------------------ bounds

\* rows of the small catalog
SmallRows == 4
\* rows of the large catalog beyond the candidate window
ExtraRows == 2
\* distinct query embeddings the generator may draw
NumEmbeddings == 2
\* largest page number a request carries
MaxPage == 1
\* threads that call into api/db.rs
NumThreads == 2
\* calls of init_db, set_test_pool and get_db in one run
MaxCalls == 3
\* largest total_items a Pagination component on its own is given
MaxItems == 25
\* rows of the catalog behind the search page
PageRows == 14
\* searches submitted from the search bar in one run
MaxTrigger == 1
\* search tasks spawned on one pool
NumTasks == 2

\* ------------------------------------------------------- program constants

\* LIMIT 100 of bm25_results and of vector_results
CandidateLimit == 100
\* combined_score weights, in tenths: 0.3 and 0.7
Bm25Weight == 3
VectorWeight == 7
WeightDen == 10
\* width of a price histogram bucket, in dollars
BucketWidth == 50
\* LIMIT 20 of the brand facets
BrandFacetLimit == 20

\* fixed-point units
ScoreScale == 10000
CentsPerDollar == 100

\* 2^16 and 2^8: the halves of a u32 (SearchFilters.page, page_size) and the
\* bytes of a half
Half == 65536
Byte == 256

\* let page_size = 12_u32; of SearchPage
PageSize == 12

\* ------------------------------------------------------------------ values

None == <<>>
Some(x) == <<x>>
IsNull(o) == o = <<>>

Range(s) == {s[i] : i \in 1..Len(s)}

Min2(a, b) == IF a <= b THEN a ELSE b
Max2(a, b) == IF a >= b THEN a ELSE b

\* COALESCE(x, d)
Coalesce(o, d) == IF IsNull(o) THEN d ELSE o[1]

\* ----------------------------------------------------------------- strings

Whitespace == {" "}

RECURSIVE TrimStart(_)
TrimStart(s) ==
    IF s # <<>> /\ Head(s) \in Whitespace THEN TrimStart(Tail(s)) ELSE s

RECURSIVE TrimEnd(_)
TrimEnd(s) ==
    IF s # <<>> /\ s[Len(s)] \in Whitespace
    THEN TrimEnd(SubSeq(s, 1, Len(s) - 1))
    ELSE s

\* str::trim
Trim(s) == TrimEnd(TrimStart(s))

\* fault: the wildcard rule without the trim
NormalizeQuery_NoTrim(query) == IF query = <<"*">> THEN <<>> ELSE query

\* let query = if query.trim() == "*" { "" } else { query };
NormalizeQuery(query) == IF Trim(query) = <<"*">> THEN <<>> ELSE query

\* the engine's tokenizer: the words of a string; whitespace and punctuation
\* separate words and are no tokens themselves
Tokens(s) == Range(s) \ (Whitespace \cup {"*"})

\* ----------------------------------------------------------------- catalog

CategoryNames == <<"audio", "video", "home">>

BrandNames ==
    << "sony", "bose", "apple", "dell", "asus", "acer", "lg", "jbl",
       "hp", "msi", "ikea", "dyson", "canon", "nikon", "anker", "belkin",
       "lenovo", "razer", "corsair", "philips", "garmin", "fitbit" >>

PriceBase == <<1999, 4999, 5000, 9999, 25000>>

\* the item with id i (Product, model/mod.rs): the columns the queries read.
\* name and description are the token sets of the text columns; embedding
\* names the description_embedding vector (items 1 and 2 share one).
Item(i) ==
    [ id          |-> i,
      name        |-> {CategoryNames[((i - 1) % Len(CategoryNames)) + 1]}
                         \cup (IF i % 5 = 0 THEN {"pro"} ELSE {}),
      description |-> {"item"} \cup (IF i % 2 = 0 THEN {"wireless"} ELSE {}),
      brand       |-> BrandNames[((i - 1) % Len(BrandNames)) + 1],
      category    |-> CategoryNames[((i - 1) % Len(CategoryNames)) + 1],
      price       |-> PriceBase[((i - 1) % Len(PriceBase)) + 1]
                         + 1000 * ((i - 1) \div 10),
      rating      |-> 300 + 50 * (i % 4),
      in_stock    |-> (i % 4 # 3),
      created_at  |-> (i * 37) % 53,
      doc_len     |-> i % 26,
      embedding   |-> IF i = 2 THEN 1 ELSE i ]

\* an items table of n rows; ids are the primary key 1..n
Items(n) == [i \in 1..n |-> Item(i)]

Catalogs == {Items(SmallRows), Items(CandidateLimit + ExtraRows)}

\* ------------------------------------------------------------------ engine

\* ParadeDB match disjunction, field ||| query: some token of the query
\* occurs in the field
MatchAny(field, query) == Tokens(query) \cap field # {}

\* description ||| $1 OR name ||| $1 OR brand ||| $1
FieldsMatch(p, query) ==
    \/ MatchAny(p.description, query)
    \/ MatchAny(p.name, query)
    \/ MatchAny({p.brand}, query)

\* pdb.score(id): NULL for a row no ||| operator matched, else a positive
\* relevance that grows with the hits and falls with the document length
PdbScore(p, query) ==
    IF ~FieldsMatch(p, query) THEN None
    ELSE Some( 12000 * Cardinality(Tokens(query) \cap p.name)
             + 8000 * Cardinality(Tokens(query) \cap p.description)
             + 15000 * Cardinality(Tokens(query) \cap {p.brand})
             - 13 * p.doc_len )

Embeddings == 1..NumEmbeddings

\* pgvector cosine distance, description_embedding <=> $1, in [0, 2]
CosineDistance(p, e) == ((p.embedding * (37 * e + 11)) % 401) * 50

\* (1 - (description_embedding <=> $1))::float8
VectorScore(p, e) == ScoreScale - CosineDistance(p, e)

\* the order in which a scan hands out rows that the ORDER BY leaves tied:
\* unspecified by SQL, here ascending or descending id
ScanOrders == {"asc", "desc"}

ScanPos(p, scan) == IF scan = "asc" THEN p.id ELSE 0 - p.id

\* FROM items: the rows of the table as a scan returns them
Scan(table, scan) ==
    [i \in 1..Len(table) |->
        IF scan = "asc" THEN table[i] ELSE table[Len(table) + 1 - i]]

\* LIMIT l OFFSET o of an ordered row sequence
LimitOffset(rows, l, o) ==
    SubSeq(rows, o + 1, Min2(Len(rows), o + l))

\* ----------------------------------------------------------- SearchFilters

SortOptions == {"Relevance", "PriceAsc", "PriceDesc", "RatingDesc", "Newest"}

\* SearchFilters::default()
DefaultFilters ==
    [ categories |-> <<>>, price_min |-> None, price_max |-> None,
      min_rating |-> None, in_stock_only |-> FALSE, sort_by |-> "Relevance",
      page |-> 0, page_size |-> 0 ]

\* a u32 is held as two 16-bit halves, [hi, lo], of value hi * 2^16 + lo
ToU32(x) == [hi |-> x \div Half, lo |-> x % Half]

\* the product of two 16-bit halves, as the halves [hi, lo] of its 32 bits
MulHalf(x, y) ==
    LET p1  == (x \div Byte) * y
        p0  == (x % Byte) * y
        low == (p1 % Byte) * Byte + p0
    IN  [hi |-> (p1 \div Byte) + (low \div Half), lo |-> low % Half]

\* the exact product of two u32 values: its four 16-bit digits, lowest first
U32Product(a, b) ==
    LET ll == MulHalf(a.lo, b.lo)
        lh == MulHalf(a.lo, b.hi)
        hl == MulHalf(a.hi, b.lo)
        hh == MulHalf(a.hi, b.hi)
        s1 == ll.hi + lh.lo + hl.lo
        s2 == lh.hi + hl.hi + hh.lo + (s1 \div Half)
    IN  << ll.lo, s1 % Half, s2 % Half, hh.hi + (s2 \div Half) >>

\* page * page_size does not fit a u32: with overflow checks (debug profile)
\* the multiplication panics, without them (release profile) it wraps
OffsetOverflows(filters) ==
    LET d == U32Product(ToU32(filters.page), ToU32(filters.page_size))
    IN  d[3] # 0 \/ d[4] # 0

\* let offset = (filters.page * filters.page_size) as i64;
\* the low 32 bits of the product, zero-extended
Offset(filters) ==
    LET d == U32Product(ToU32(filters.page), ToU32(filters.page_size))
    IN  [hi |-> d[2], lo |-> d[1]]

\* the rows OFFSET o skips of n rows
OffsetRows(o, n) ==
    IF o.hi >= Half \div 2 THEN n ELSE Min2(o.hi * Half + o.lo, n)

\* fault: a page size of 0 read as "use ten"
Limit_ZeroMeansTen(filters) ==
    IF filters.page_size = 0 THEN 10 ELSE filters.page_size

\* let limit = filters.page_size as i64;
Limit(filters) == filters.page_size

\* ---------------------------------------------------------- lexical search

\* $1 = '' OR p.description ||| $1 OR p.name ||| $1 OR p.brand ||| $1
TextPredicate(p, query) == query = <<>> \/ FieldsMatch(p, query)

\* fault: category = ANY($4) also for the empty list
CategoryClause_EmptyMatchesNone(p, filters) ==
    p.category \in Range(filters.categories)

\* let category_clause = if filters.categories.is_empty() { "TRUE" }
\*                       else { "category = ANY($4)" };
CategoryClause(p, filters) ==
    IF filters.categories = <<>> THEN TRUE
    ELSE p.category \in Range(filters.categories)

\* WHERE of the row query of search_bm25_with_schema
Bm25Where(p, query, filters) ==
    /\ TextPredicate(p, query)
    /\ (IsNull(filters.price_min) \/ p.price >= filters.price_min[1])
    /\ (IsNull(filters.price_max) \/ p.price <= filters.price_max[1])
    /\ CategoryClause(p, filters)
    /\ (IsNull(filters.min_rating) \/ p.rating >= filters.min_rating[1])
    /\ (filters.in_stock_only = FALSE \/ p.in_stock = TRUE)

\* fault: a count query whose text predicate reads the description alone
Bm25CountWhere_DescriptionOnly(p, query, filters) ==
    /\ (query = <<>> \/ MatchAny(p.description, query))
    /\ (IsNull(filters.price_min) \/ p.price >= filters.price_min[1])
    /\ (IsNull(filters.price_max) \/ p.price <= filters.price_max[1])
    /\ (IsNull(filters.min_rating) \/ p.rating >= filters.min_rating[1])
    /\ (filters.in_stock_only = FALSE \/ p.in_stock = TRUE)

\* WHERE of the count query of search_bm25_with_schema
Bm25CountWhere(p, query, filters) ==
    /\ TextPredicate(p, query)
    /\ (IsNull(filters.price_min) \/ p.price >= filters.price_min[1])
    /\ (IsNull(filters.price_max) \/ p.price <= filters.price_max[1])
    /\ (IsNull(filters.min_rating) \/ p.rating >= filters.min_rating[1])
    /\ (filters.in_stock_only = FALSE \/ p.in_stock = TRUE)

\* fault: x ASC in place of x DESC
DescBefore_Asc(x, y) ==
    IF IsNull(x) \/ IsNull(y) THEN IsNull(y) /\ ~IsNull(x) ELSE x[1] < y[1]

\* x DESC on a nullable column: NULLs first, then larger values first
DescBefore(x, y) ==
    IF IsNull(x) \/ IsNull(y) THEN IsNull(x) /\ ~IsNull(y) ELSE x[1] > y[1]

\* fault: a sort_clause that orders by relevance whatever sort_by says
SortClause_RelevanceOnly(a, b, sort_by) == DescBefore(a.score, b.score)

\* the sort_clause of search_bm25_with_schema: a precedes b; a and b hold a
\* row p and its pdb.score
SortClause(a, b, sort_by) ==
    CASE sort_by = "Relevance"  -> DescBefore(a.score, b.score)
      [] sort_by = "PriceAsc"   -> a.p.price < b.p.price
      [] sort_by = "PriceDesc"  -> a.p.price > b.p.price
      [] sort_by = "RatingDesc" -> a.p.rating > b.p.rating
      [] sort_by = "Newest"     -> a.p.created_at > b.p.created_at

\* ORDER BY of the row query; rows the clause leaves tied keep the scan's order
Bm25OrderBy(rows, query, sort_by, scan) ==
    LET scored == [i \in 1..Len(rows) |->
                     [p |-> rows[i], score |-> PdbScore(rows[i], query)]]
        sorted == SortSeq(scored, LAMBDA a, b :
                     \/ SortClause(a, b, sort_by)
                     \/ /\ ~SortClause(b, a, sort_by)
                        /\ ScanPos(a.p, scan) < ScanPos(b.p, scan))
    IN  [i \in 1..Len(sorted) |-> sorted[i].p]

\* SearchResultRow of the row query of search_bm25_with_schema
Bm25ResultRow(p, query) ==
    [ product        |-> p,
      bm25_score     |-> PdbScore(p, query),
      vector_score   |-> None,
      combined_score |-> Coalesce(PdbScore(p, query), 0) ]

\* the row query of search_bm25_with_schema
Bm25RowQuery(table, query, filters, scan) ==
    LET matched == SelectSeq(Scan(table, scan),
                             LAMBDA p : Bm25Where(p, query, filters))
        ordered == Bm25OrderBy(matched, query, filters.sort_by, scan)
        page    == LimitOffset(ordered, Limit(filters),
                               OffsetRows(Offset(filters), Len(ordered)))
    IN  [i \in 1..Len(page) |-> Bm25ResultRow(page[i], query)]

\* the count query of search_bm25_with_schema: SELECT COUNT(*)
Bm25CountQuery(table, query, filters) ==
    Cardinality({i \in 1..Len(table) : Bm25CountWhere(table[i], query, filters)})

\* ------------------------------------------------------------------ facets

\* fault: a facet predicate that leaves out the brand column
FacetWhere_NoBrand(p, query) ==
    \/ MatchAny(p.description, query)
    \/ MatchAny(p.name, query)
    \/ query = <<>>

\* WHERE description ||| $1 OR name ||| $1 OR brand ||| $1 OR $1 = ''
FacetWhere(p, query) == FieldsMatch(p, query) \/ query = <<>>

\* fault: the groups in the order the aggregation meets them, unsorted
GroupCount_Unordered(keys) ==
    LET n      == Len(keys)
        firsts == SelectSeq([i \in 1..n |-> i],
                     LAMBDA i : \A j \in 1..(i - 1) : keys[j] # keys[i])
    IN  [g \in 1..Len(firsts) |->
            [ value |-> keys[firsts[g]],
              count |-> Cardinality({j \in 1..n : keys[j] = keys[firsts[g]]}) ]]

\* GROUP BY key, COUNT(*), ORDER BY count DESC; keys holds the grouping key of
\* each selected row in scan order, and groups with equal counts come in the
\* order the aggregation meets them
GroupCount(keys) ==
    LET n      == Len(keys)
        firsts == SelectSeq([i \in 1..n |-> i],
                     LAMBDA i : \A j \in 1..(i - 1) : keys[j] # keys[i])
        groups == [g \in 1..Len(firsts) |->
                     [ value |-> keys[firsts[g]],
                       count |-> Cardinality({j \in 1..n : keys[j] = keys[firsts[g]]}),
                       first |-> firsts[g] ]]
        sorted == SortSeq(groups, LAMBDA a, b :
                     \/ a.count > b.count
                     \/ a.count = b.count /\ a.first < b.first)
    IN  [g \in 1..Len(sorted) |->
            [value |-> sorted[g].value, count |-> sorted[g].count]]

\* FROM items WHERE ... of a facet query
FacetRows(table, query, scan) ==
    SelectSeq(Scan(table, scan), LAMBDA p : FacetWhere(p, query))

\* get_category_facets_with_schema
CategoryFacets(table, query, scan) ==
    LET rows == FacetRows(table, query, scan)
    IN  GroupCount([i \in 1..Len(rows) |-> rows[i].category])

\* get_brand_facets_with_schema: ... LIMIT 20
BrandFacets(table, query, scan) ==
    LET rows == FacetRows(table, query, scan)
    IN  LimitOffset(GroupCount([i \in 1..Len(rows) |-> rows[i].brand]),
                    BrandFacetLimit, 0)

\* fault: the bucket of the nearest multiple of 50 instead of the one below
PriceBucketOf_Round(p) ==
    (p.price + (BucketWidth * CentsPerDollar) \div 2)
        \div (BucketWidth * CentsPerDollar)

\* FLOOR(price::float8 / 50)
PriceBucketOf(p) == p.price \div (BucketWidth * CentsPerDollar)

\* get_price_histogram_with_schema: GROUP BY FLOOR(price / 50) ORDER BY min
PriceHistogram(table, query, scan) ==
    LET rows   == FacetRows(table, query, scan)
        groups == GroupCount([i \in 1..Len(rows) |-> PriceBucketOf(rows[i])])
        sorted == SortSeq(groups, LAMBDA a, b : a.value < b.value)
    IN  [g \in 1..Len(sorted) |->
            [ min   |-> sorted[g].value * BucketWidth,
              max   |-> sorted[g].value * BucketWidth + BucketWidth,
              count |-> sorted[g].count ]]

\* the three facet queries every lexical and hybrid search ends with
Facets(table, query, scan) ==
    [ category_facets |-> CategoryFacets(table, query, scan),
      brand_facets    |-> BrandFacets(table, query, scan),
      price_histogram |-> PriceHistogram(table, query, scan) ]

\* ---------------------------------------------------------------- requests

NoFacets ==
    [category_facets |-> <<>>, brand_facets |-> <<>>, price_histogram |-> <<>>]

\* the catalog queries a search function awaits, in the order it awaits them
QueryPlan(mode) ==
    CASE mode = "Bm25"   -> << "rows", "count", "category_facets",
                               "brand_facets", "price_histogram" >>
      [] mode = "Vector" -> << "rows", "count" >>
      [] mode = "Hybrid" -> << "rows", "category_facets", "brand_facets",
                               "price_histogram" >>

\* fault: a query that failed is sent a second time
Attempted_Retry(plan, k) == SubSeq(plan, 1, k) \o << plan[k] >>

\* the queries sent when the k-th is the one that fails: `.await?` returns
\* the error at once, so the k-th is the last one sent
Attempted(plan, k) == SubSeq(plan, 1, k)

NoCall ==
    [ engine_query |-> <<>>, embedding |-> None, scan |-> "asc",
      bm25_results |-> <<>>, vector_results |-> <<>>, combined |-> <<>>,
      facets |-> NoFacets, attempted |-> <<>>, failed |-> None ]

\* a call that ended before its Ok(..): by the error of its k-th query, or,
\* with k = 0, by the panic of the offset multiplication before any query;
\* whatever the queries before the k-th returned is dropped with the frame
AbortedCall(mode, query, k) ==
    [NoCall EXCEPT !.engine_query = query,
                   !.attempted = IF k = 0 THEN <<>>
                                 ELSE Attempted(QueryPlan(mode), k),
                   !.failed = IF k = 0 THEN None
                              ELSE Some(QueryPlan(mode)[k])]

NoRequest == [mode |-> "None", query |-> <<>>, filters |-> DefaultFilters]

EmptyResults ==
    [ results |-> <<>>, total_count |-> 0, category_facets |-> <<>>,
      brand_facets |-> <<>>, price_histogram |-> <<>>,
      avg_price |-> 0, avg_rating |-> 0 ]

NoPrev == [kind |-> "none", results |-> <<>>, call |-> NoCall]

\* what search_bm25_with_schema binds as $1 and gets from its facet queries
Bm25Call(table, query, scan) ==
    [NoCall EXCEPT !.engine_query = query, !.scan = scan,
                   !.facets = Facets(table, query, scan),
                   !.attempted = QueryPlan("Bm25")]

\* Ok(SearchResults { .. }) of search_bm25_with_schema
Bm25Response(table, c, filters) ==
    [ results         |-> Bm25RowQuery(table, c.engine_query, filters, c.scan),
      total_count     |-> Bm25CountQuery(table, c.engine_query, filters),
      category_facets |-> c.facets.category_facets,
      brand_facets    |-> c.facets.brand_facets,
      price_histogram |-> c.facets.price_histogram,
      avg_price       |-> 0,
      avg_rating      |-> 0 ]

\* ----------------------------------------------------------- vector search

\* fn generate_query_embedding(_query): a fresh random vector on every call,
\* whatever the query; e names the vector that was drawn
GenerateQueryEmbedding(query, e) == e

\* WHERE of the row query of search_vector_with_schema
VectorWhere(p, filters) ==
    /\ (IsNull(filters.price_min) \/ p.price >= filters.price_min[1])
    /\ (IsNull(filters.price_max) \/ p.price <= filters.price_max[1])
    /\ (filters.categories = <<>> \/ p.category \in Range(filters.categories))
    /\ (IsNull(filters.min_rating) \/ p.rating >= filters.min_rating[1])
    /\ (filters.in_stock_only = FALSE \/ p.in_stock = TRUE)

\* ORDER BY description_embedding <=> $1; tied rows keep the scan's order
DistanceOrderBy(rows, e, scan) ==
    SortSeq(rows, LAMBDA a, b :
        \/ CosineDistance(a, e) < CosineDistance(b, e)
        \/ /\ CosineDistance(a, e) = CosineDistance(b, e)
           /\ ScanPos(a, scan) < ScanPos(b, scan))

\* SearchResultRow of the row query of search_vector_with_schema
VectorResultRow(p, e) ==
    [ product        |-> p,
      bm25_score     |-> None,
      vector_score   |-> Some(VectorScore(p, e)),
      combined_score |-> VectorScore(p, e) ]

\* fault: a row query that orders by the sort option when one is chosen
VectorRowQuery_SortBy(table, e, filters, scan) ==
    LET matched == SelectSeq(Scan(table, scan), LAMBDA p : VectorWhere(p, filters))
        ordered == IF filters.sort_by = "Relevance"
                   THEN DistanceOrderBy(matched, e, scan)
                   ELSE Bm25OrderBy(matched, <<>>, filters.sort_by, scan)
        page    == LimitOffset(ordered, Limit(filters),
                               OffsetRows(Offset(filters), Len(ordered)))
    IN  [i \in 1..Len(page) |-> VectorResultRow(page[i], e)]

\* the row query of search_vector_with_schema
VectorRowQuery(table, e, filters, scan) ==
    LET matched == SelectSeq(Scan(table, scan), LAMBDA p : VectorWhere(p, filters))
        ordered == DistanceOrderBy(matched, e, scan)
        page    == LimitOffset(ordered, Limit(filters),
                               OffsetRows(Offset(filters), Len(ordered)))
    IN  [i \in 1..Len(page) |-> VectorResultRow(page[i], e)]

\* SELECT COUNT(*) FROM items
VectorCountQuery(table) == Len(table)

\* what search_vector_with_schema generates and binds
VectorCall(query, embedding, scan) ==
    [NoCall EXCEPT !.engine_query = query, !.embedding = Some(embedding),
                   !.scan = scan, !.attempted = QueryPlan("Vector")]

\* fault: a count query that applies the filters of the row query
VectorResponse_CountFiltered(table, c, filters) ==
    [ results         |-> VectorRowQuery(table, c.embedding[1], filters, c.scan),
      total_count     |-> Cardinality({i \in 1..Len(table) :
                                          VectorWhere(table[i], filters)}),
      category_facets |-> <<>>,
      brand_facets    |-> <<>>,
      price_histogram |-> <<>>,
      avg_price       |-> 0,
      avg_rating      |-> 0 ]

\* Ok(SearchResults { .. }) of search_vector_with_schema
VectorResponse(table, c, filters) ==
    [ results         |-> VectorRowQuery(table, c.embedding[1], filters, c.scan),
      total_count     |-> VectorCountQuery(table),
      category_facets |-> <<>>,
      brand_facets    |-> <<>>,
      price_histogram |-> <<>>,
      avg_price       |-> 0,
      avg_rating      |-> 0 ]

\* ----------------------------------------------------------- hybrid search

\* WHERE of CTE bm25_results
Bm25ResultsWhere(p, query) == FieldsMatch(p, query) \/ query = <<>>

\* CTE bm25_results: ... ORDER BY pdb.score(id) DESC LIMIT 100
Bm25Results(table, query, scan) ==
    LET matched == SelectSeq(Scan(table, scan), LAMBDA p : Bm25ResultsWhere(p, query))
        ordered == Bm25OrderBy(matched, query, "Relevance", scan)
        top     == LimitOffset(ordered, CandidateLimit, 0)
    IN  [i \in 1..Len(top) |->
            [id |-> top[i].id, bm25_score |-> PdbScore(top[i], query)]]

\* fault: CTE vector_results without its LIMIT
VectorResults_NoLimit(table, e, scan) ==
    LET ordered == DistanceOrderBy(Scan(table, scan), e, scan)
    IN  [i \in 1..Len(ordered) |->
            [id |-> ordered[i].id, vector_score |-> Some(VectorScore(ordered[i], e))]]

\* CTE vector_results: ... ORDER BY description_embedding <=> $2 LIMIT 100
VectorResults(table, e, scan) ==
    LET ordered == DistanceOrderBy(Scan(table, scan), e, scan)
        top     == LimitOffset(ordered, CandidateLimit, 0)
    IN  [i \in 1..Len(top) |->
            [id |-> top[i].id, vector_score |-> Some(VectorScore(top[i], e))]]

\* a float8 score times a weight of w tenths
Weighted(x, w) == (x * w) \div WeightDen

\* fault: the two weights exchanged
CombinedScore_Swapped(b_score, v_score) ==
    Weighted(Coalesce(b_score, 0), VectorWeight)
        + Weighted(Coalesce(v_score, 0), Bm25Weight)

\* COALESCE(b.bm25_score, 0) * 0.3 + COALESCE(v.vector_score, 0) * 0.7
CombinedScore(b_score, v_score) ==
    Weighted(Coalesce(b_score, 0), Bm25Weight)
        + Weighted(Coalesce(v_score, 0), VectorWeight)

\* one row of CTE combined, from the joined b and v sides (NULL when absent)
CombinedRow(id, b_score, v_score) ==
    [ id             |-> id,
      bm25_score     |-> Coalesce(b_score, 0),
      vector_score   |-> Coalesce(v_score, 0),
      combined_score |-> CombinedScore(b_score, v_score) ]

\* the score column of the side's row with this id, NULL when it has none
SideScore(side, ids, id, column) ==
    IF id \in ids
    THEN (side[CHOOSE i \in 1..Len(side) : side[i].id = id])[column]
    ELSE None

\* fault: b LEFT JOIN v in place of the full outer join
Combined_LeftJoin(b, v) ==
    LET v_ids == {v[i].id : i \in 1..Len(v)}
    IN  [i \in 1..Len(b) |->
            CombinedRow(b[i].id, b[i].bm25_score,
                        SideScore(v, v_ids, b[i].id, "vector_score"))]

\* CTE combined: bm25_results b FULL OUTER JOIN vector_results v ON b.id = v.id
Combined(b, v) ==
    LET b_ids  == {b[i].id : i \in 1..Len(b)}
        v_ids  == {v[i].id : i \in 1..Len(v)}
        left   == [i \in 1..Len(b) |->
                     CombinedRow(b[i].id, b[i].bm25_score,
                                 SideScore(v, v_ids, b[i].id, "vector_score"))]
        v_only == SelectSeq(v, LAMBDA r : r.id \notin b_ids)
        right  == [i \in 1..Len(v_only) |->
                     CombinedRow(v_only[i].id, None, v_only[i].vector_score)]
    IN  left \o right

\* fault: the final WHERE without its category clause
HybridWhere_NoCategory(p, filters) ==
    /\ (IsNull(filters.price_min) \/ p.price >= filters.price_min[1])
    /\ (IsNull(filters.price_max) \/ p.price <= filters.price_max[1])
    /\ (IsNull(filters.min_rating) \/ p.rating >= filters.min_rating[1])
    /\ (filters.in_stock_only = FALSE \/ p.in_stock = TRUE)

\* WHERE of the final SELECT of search_hybrid_with_schema
HybridWhere(p, filters) ==
    /\ (IsNull(filters.price_min) \/ p.price >= filters.price_min[1])
    /\ (IsNull(filters.price_max) \/ p.price <= filters.price_max[1])
    /\ (filters.categories = <<>> \/ p.category \in Range(filters.categories))
    /\ (IsNull(filters.min_rating) \/ p.rating >= filters.min_rating[1])
    /\ (filters.in_stock_only = FALSE \/ p.in_stock = TRUE)

\* SearchResultRow of the final SELECT: combined c JOIN items p ON p.id = c.id
HybridResultRow(c, p) ==
    [ product        |-> p,
      bm25_score     |-> Some(c.bm25_score),
      vector_score   |-> Some(c.vector_score),
      combined_score |-> c.combined_score ]

\* the final SELECT of search_hybrid_with_schema
HybridSelect(table, combined, filters, scan) ==
    LET joined  == [i \in 1..Len(combined) |->
                      HybridResultRow(combined[i], table[combined[i].id])]
        matched == SelectSeq(joined, LAMBDA r : HybridWhere(r.product, filters))
        ordered == SortSeq(matched, LAMBDA x, y :
                      \/ x.combined_score > y.combined_score
                      \/ /\ x.combined_score = y.combined_score
                         /\ ScanPos(x.product, scan) < ScanPos(y.product, scan))
    IN  LimitOffset(ordered, Limit(filters),
                    OffsetRows(Offset(filters), Len(ordered)))

\* what search_hybrid_with_schema binds, the CTEs of its query and what its
\* facet queries return
HybridCall(table, query, embedding, scan) ==
    LET b == Bm25Results(table, query, scan)
        v == VectorResults(table, embedding, scan)
    IN  [ engine_query   |-> query,
          embedding      |-> Some(embedding),
          scan           |-> scan,
          bm25_results   |-> b,
          vector_results |-> v,
          combined       |-> Combined(b, v),
          facets         |-> Facets(table, query, scan),
          attempted      |-> QueryPlan("Hybrid"),
          failed         |-> None ]

\* fault: total_count taken before LIMIT and OFFSET cut the page
HybridResponse_CountCandidates(table, c, filters) ==
    LET results == HybridSelect(table, c.combined, filters, c.scan)
        all     == HybridSelect(table, c.combined,
                       [filters EXCEPT !.page = 0, !.page_size = Len(c.combined)],
                       c.scan)
    IN  [ results         |-> results,
          total_count     |-> Len(all),
          category_facets |-> c.facets.category_facets,
          brand_facets    |-> c.facets.brand_facets,
          price_histogram |-> c.facets.price_histogram,
          avg_price       |-> 0,
          avg_rating      |-> 0 ]

\* Ok(SearchResults { .. }) of search_hybrid_with_schema
HybridResponse(table, c, filters) ==
    LET results == HybridSelect(table, c.combined, filters, c.scan)
    IN  [ results         |-> results,
          total_count     |-> Len(results),
          category_facets |-> c.facets.category_facets,
          brand_facets    |-> c.facets.brand_facets,
          price_histogram |-> c.facets.price_histogram,
          avg_price       |-> 0,
          avg_rating      |-> 0 ]

\* the query strings a caller sends
Queries ==
    { <<>>, <<"*">>, <<" ", "*", " ">>, <<"sony">>, <<"item">>,
      <<"wireless", " ", "pro">> }

\* vector search ignores the query string
VectorQueries == {<<>>, <<"sony">>}

PageSizes == {0, 2, 2 * CandidateLimit}

\* the narrowing fields of a request: none, each filter alone, a price range,
\* every filter at once, and two that no row of the catalog passes
Narrowings ==
    LET none == [ categories |-> <<>>, price_min |-> None, price_max |-> None,
                  min_rating |-> None, in_stock_only |-> FALSE ]
    IN  { none,
          [none EXCEPT !.categories = <<"audio">>],
          [none EXCEPT !.categories = <<"audio", "video">>],
          [none EXCEPT !.price_min = Some(5000)],
          [none EXCEPT !.price_max = Some(10000)],
          [none EXCEPT !.price_min = Some(5000), !.price_max = Some(10000)],
          [none EXCEPT !.min_rating = Some(400)],
          [none EXCEPT !.in_stock_only = TRUE],
          [ categories |-> <<"audio">>, price_min |-> Some(5000),
            price_max |-> Some(30000), min_rating |-> Some(350),
            in_stock_only |-> TRUE ],
          [none EXCEPT !.categories = <<"garden">>],
          [none EXCEPT !.price_min = Some(99999900), !.price_max = Some(99999900)] }

\* the SearchFilters a caller sends: a narrowing with the default order and
\* page, no narrowing with any sort option and page, a price floor alone
\* with the default order and any page, or a page and page size of 2^16,
\* whose product is 2^32
FilterSpace ==
    { [DefaultFilters EXCEPT !.page = Half, !.page_size = Half] } \cup
    { f \in { [ categories |-> n.categories, price_min |-> n.price_min,
                price_max |-> n.price_max, min_rating |-> n.min_rating,
                in_stock_only |-> n.in_stock_only, sort_by |-> sort_by,
                page |-> page, page_size |-> page_size ] :
                n \in Narrowings, sort_by \in SortOptions, page \in 0..MaxPage,
                page_size \in PageSizes } :
        \/ f.sort_by = "Relevance" /\ f.page = 0
        \/ /\ f.categories = <<>> /\ f.price_min = None /\ f.price_max = None
           /\ f.min_rating = None /\ ~f.in_stock_only
        \/ /\ f.sort_by = "Relevance"
           /\ f.categories = <<>> /\ f.price_min # None /\ f.price_max = None
           /\ f.min_rating = None /\ ~f.in_stock_only }

\* ----------------------------------------------------------------- actions

\* the parts of the program a specification does not run stay as they start
\* let query = RwSignal::new(String::new()); ... of SearchPage
InitialUi ==
    [ query |-> <<>>, mode |-> "Hybrid", selected_categories |-> <<>>,
      price_min |-> None, price_max |-> None, min_rating |-> None,
      in_stock_only |-> FALSE, sort_by |-> "Relevance", current_page |-> 0,
      search_trigger |-> 0, cleared |-> FALSE ]

\* no Pagination component is mounted on its own
NoPager ==
    [ current_page |-> 0, total_items |-> 0, page_size |-> 1,
      last |-> [click |-> "none", from |-> 0] ]

\* static POOL: OnceLock::new(); static TEST_POOL_OVERRIDE: Mutex::new(None);
\* and no thread inside a function of db.rs
InitialDb ==
    [ POOL |-> None, TEST_POOL_OVERRIDE |-> None, mutex |-> 0,
      threads |-> <<>>, clock |-> 0, history |-> <<>> ]

\* no concurrent search task is spawned
NoTasks == <<>>

Init ==
    /\ catalog \in Catalogs
    /\ pc = "idle"
    /\ req = NoRequest
    /\ resp = EmptyResults
    /\ call = NoCall
    /\ prev = NoPrev
    /\ ui = InitialUi
    /\ pager = NoPager
    /\ db = InitialDb
    /\ tasks = NoTasks

\* how a call of a search function ends before its Ok(..)
\*   "failed":   the k-th catalog query returns Err and `?` returns it
\*   "panicked": page * page_size overflows u32 in a build with overflow
\*               checks, before any query is sent
Abort(mode, query, filters) ==
    /\ req' = [mode |-> mode, query |-> query, filters |-> filters]
    /\ resp' = EmptyResults
    /\ prev' = NoPrev
    /\ \/ /\ \E k \in 1..Len(QueryPlan(mode)) :
                call' = AbortedCall(mode, NormalizeQuery(query), k)
          /\ pc' = "failed"
       \/ /\ OffsetOverflows(filters)
          /\ call' = AbortedCall(mode, NormalizeQuery(query), 0)
          /\ pc' = "panicked"

\* a caller runs search_bm25
SearchBm25 ==
    /\ pc = "idle"
    /\ UNCHANGED <<catalog, ui, pager, db, tasks>>
    /\ \E query \in Queries :
          \/ /\ \E scan \in ScanOrders :
                   /\ call' = Bm25Call(catalog, NormalizeQuery(query), scan)
                   /\ \E filters \in FilterSpace :
                         /\ req' = [mode |-> "Bm25", query |-> query,
                                    filters |-> filters]
                         /\ resp' = Bm25Response(catalog, call', filters)
             /\ pc' = "done"
             /\ prev' = NoPrev
          \/ \E filters \in FilterSpace : Abort("Bm25", query, filters)

\* a caller runs search_vector
SearchVector ==
    /\ pc = "idle"
    /\ UNCHANGED <<catalog, ui, pager, db, tasks>>
    /\ \E query \in VectorQueries :
          \/ /\ \E e \in Embeddings, scan \in ScanOrders :
                   /\ call' = VectorCall(NormalizeQuery(query),
                         GenerateQueryEmbedding(NormalizeQuery(query), e), scan)
                   /\ \E filters \in FilterSpace :
                         /\ req' = [mode |-> "Vector", query |-> query,
                                    filters |-> filters]
                         /\ resp' = VectorResponse(catalog, call', filters)
             /\ pc' = "done"
             /\ prev' = NoPrev
          \/ \E filters \in FilterSpace : Abort("Vector", query, filters)

\* a caller runs search_hybrid
SearchHybrid ==
    /\ pc = "idle"
    /\ UNCHANGED <<catalog, ui, pager, db, tasks>>
    /\ \E query \in Queries :
          \/ /\ \E e \in Embeddings, scan \in ScanOrders :
                   /\ call' = HybridCall(catalog, NormalizeQuery(query),
                         GenerateQueryEmbedding(NormalizeQuery(query), e), scan)
                   /\ \E filters \in FilterSpace :
                         /\ req' = [mode |-> "Hybrid", query |-> query,
                                    filters |-> filters]
                         /\ resp' = HybridResponse(catalog, call', filters)
             /\ pc' = "done"
             /\ prev' = NoPrev
          \/ \E filters \in FilterSpace : Abort("Hybrid", query, filters)

\* the response, or the error, is returned and dropped; nothing of the
\* request is kept
Discard ==
    /\ pc # "idle"
    /\ pc' = "idle"
    /\ req' = NoRequest
    /\ resp' = EmptyResults
    /\ call' = NoCall
    /\ prev' = NoPrev
    /\ UNCHANGED <<catalog, ui, pager, db, tasks>>

Next == SearchBm25 \/ SearchVector \/ SearchHybrid \/ Discard

Spec == Init /\ [][Next]_vars

\* --------------------------------------------------- a caller that re-issues

\* what the search function of a mode sends to and gets from the engine
\* before its filters apply: the match of search_products
SearchProductsCall(mode, table, query, e, scan) ==
    CASE mode = "Bm25"   -> Bm25Call(table, NormalizeQuery(query), scan)
      [] mode = "Vector" ->
            VectorCall(NormalizeQuery(query),
                       GenerateQueryEmbedding(NormalizeQuery(query), e), scan)
      [] mode = "Hybrid" ->
            HybridCall(table, NormalizeQuery(query),
                       GenerateQueryEmbedding(NormalizeQuery(query), e), scan)

\* the SearchResults search_products returns for the mode
SearchProducts(mode, table, c, filters) ==
    CASE mode = "Bm25"   -> Bm25Response(table, c, filters)
      [] mode = "Vector" -> VectorResponse(table, c, filters)
      [] mode = "Hybrid" -> HybridResponse(table, c, filters)

\* the caller asks for the next page of the request it holds the response of:
\* a second, separate call with page + 1 and everything else as before
NextPage ==
    /\ pc = "done"
    /\ prev.kind = "none"
    /\ req.filters.page < MaxPage
    /\ UNCHANGED <<catalog, ui, pager, db, tasks>>
    /\ \/ /\ req' = [req EXCEPT !.filters.page = @ + 1]
          /\ \E e \in Embeddings, scan \in ScanOrders :
                /\ call' = SearchProductsCall(req.mode, catalog, req.query,
                                              e, scan)
                /\ resp' = SearchProducts(req.mode, catalog, call',
                                          req'.filters)
          /\ prev' = [kind |-> "nextpage", results |-> resp.results,
                      call |-> call]
          /\ pc' = pc
       \/ Abort(req.mode, req.query,
                [req.filters EXCEPT !.page = @ + 1])

\* the caller sends the request it holds the response of once more, unchanged
Repeat ==
    /\ pc = "done"
    /\ prev.kind = "none"
    /\ UNCHANGED <<catalog, ui, pager, db, tasks>>
    /\ \/ /\ req' = req
          /\ \E e \in Embeddings, scan \in ScanOrders :
                /\ call' = SearchProductsCall(req.mode, catalog, req.query,
                                              e, scan)
                /\ resp' = SearchProducts(req.mode, catalog, call',
                                          req.filters)
          /\ prev' = [kind |-> "repeat", results |-> resp.results,
                      call |-> call]
          /\ pc' = pc
       \/ Abort(req.mode, req.query, req.filters)

NextPair == Next \/ NextPage \/ Repeat

SpecPair == Init /\ [][NextPair]_vars

\* ------------------------------------------- components/search.rs: Pagination

\* u32::saturating_sub
SaturatingSub(x, y) == IF x >= y THEN x - y ELSE 0

\* (total_items as f64 / page_size as f64).ceil() as u32, for page_size >= 1:
\* the cast of a negative float to u32 is 0
TotalPages(total_items, page_size) ==
    IF total_items <= 0 THEN 0
    ELSE (total_items + page_size - 1) \div page_size

\* let can_go_prev = move || current_page.get() > 0;
CanGoPrev(current_page) == current_page > 0

\* fault: a guard that compares with total_pages itself
CanGoNext_UpToTotal(current_page, total_items, page_size) ==
    current_page < TotalPages(total_items, page_size)

\* let can_go_next = move || current_page.get() < total_pages().saturating_sub(1);
CanGoNext(current_page, total_items, page_size) ==
    current_page < SaturatingSub(TotalPages(total_items, page_size), 1)

\* go_prev: current_page after a click on Previous
GoPrev(current_page) ==
    IF CanGoPrev(current_page) THEN SaturatingSub(current_page, 1)
    ELSE current_page

\* go_next: current_page after a click on Next
GoNext(current_page, total_items, page_size) ==
    IF CanGoNext(current_page, total_items, page_size) THEN current_page + 1
    ELSE current_page

\* the page sizes a Pagination component on its own is given
PagerSizes == {1, 2, 10, 12}

\* a Pagination component is mounted with some total_items and page_size on
\* a page of the range these give
InitPager ==
    /\ catalog = Items(SmallRows)
    /\ pc = "idle"
    /\ req = NoRequest
    /\ resp = EmptyResults
    /\ call = NoCall
    /\ prev = NoPrev
    /\ ui = InitialUi
    /\ db = InitialDb
    /\ tasks = NoTasks
    /\ \E total_items \in 0..MaxItems, page_size \in PagerSizes :
          \E page \in 0..Max2(TotalPages(total_items, page_size) - 1, 0) :
              pager = [ current_page |-> page, total_items |-> total_items,
                        page_size |-> page_size,
                        last |-> [click |-> "none", from |-> page] ]

\* on:click=go_next
PagerNext ==
    /\ pager' = [pager EXCEPT
                   !.current_page = GoNext(@, pager.total_items, pager.page_size),
                   !.last = [click |-> "next", from |-> pager.current_page]]
    /\ UNCHANGED <<catalog, pc, req, resp, call, prev, ui, db, tasks>>

\* on:click=go_prev
PagerPrev ==
    /\ pager' = [pager EXCEPT
                   !.current_page = GoPrev(@),
                   !.last = [click |-> "prev", from |-> pager.current_page]]
    /\ UNCHANGED <<catalog, pc, req, resp, call, prev, ui, db, tasks>>

NextPager == PagerNext \/ PagerPrev

SpecPager == InitPager /\ [][NextPager]_vars

\* ---------------------------------------------------- pages/search.rs: page

\* what the user types into the search bar
PageQueries == {<<>>, <<"*">>, <<" ", "*", " ">>, <<"item">>}

\* the values the user gives the filters and the sort option
PagePrices == {None, Some(5000)}
PageRatings == {None, Some(400)}
PageSorts == {"Relevance", "PriceAsc"}
PageCategories == {"audio"}

\* let filters = Signal::derive(move || SearchFilters { .. });
PageFilters(u) ==
    [ categories |-> u.selected_categories, price_min |-> u.price_min,
      price_max |-> u.price_max, min_rating |-> u.min_rating,
      in_stock_only |-> u.in_stock_only, sort_by |-> u.sort_by,
      page |-> u.current_page, page_size |-> PageSize ]

\* the source of the resource:
\* move || (query.get(), mode.get(), filters.get(), search_trigger.get())
PageKey(u) == << u.query, u.mode, PageFilters(u), u.search_trigger >>

\* the page's searches take tied rows in id order: the other order changes
\* which tied rows a response lists first, neither its counts nor the
\* page's signals (Spec and SpecPair cover both orders)
PageScanOrders == {"asc"}

\* the embeddings a search of the mode may draw: search_bm25 draws none
ModeEmbeddings(mode) == IF mode = "Bm25" THEN {1} ELSE Embeddings

\* fault: a fetcher that sends every query to the server
EmptyQueryShortCut_Never(q) == FALSE

\* if q.is_empty() { Ok(SearchResults { results: vec![], .. }) }
EmptyQueryShortCut(q) == q = <<>>

\* the resource runs its fetcher when its source changes: the empty results
\* for the empty query, search_products(q, m, f) otherwise, which ends in
\* Ok or in an error the page shows with no results and total_count 0; the
\* page holds the request and the outcome, nothing of the call itself
PageFetch(u) ==
    IF PageKey(u) = PageKey(ui)
    THEN UNCHANGED <<pc, req, resp, call, prev>>
    ELSE IF EmptyQueryShortCut(u.query)
    THEN /\ pc' = "done"
         /\ req' = NoRequest
         /\ resp' = EmptyResults
         /\ call' = NoCall
         /\ prev' = NoPrev
    ELSE /\ req' = [mode |-> u.mode, query |-> u.query,
                    filters |-> PageFilters(u)]
         /\ call' = NoCall
         /\ prev' = NoPrev
         /\ \/ /\ \E e \in ModeEmbeddings(u.mode), scan \in PageScanOrders :
                    resp' = SearchProducts(u.mode, catalog,
                               SearchProductsCall(u.mode, catalog, u.query,
                                                  e, scan),
                               PageFilters(u))
               /\ pc' = "done"
            \/ /\ resp' = EmptyResults
               /\ pc' = "failed"

\* a handler of the page has set the signals to u: the resource follows;
\* cleared tells whether the handler was the clear-filters callback
PageUpdate(u, cleared) ==
    /\ ui' = [u EXCEPT !.cleared = cleared]
    /\ PageFetch(u)
    /\ UNCHANGED <<catalog, pager, db, tasks>>

\* SearchBar on_submit: query.set(local_query.get()); on_search.run(())
\* on_search: current_page.set(0); search_trigger.update(|t| *t += 1)
Submit ==
    /\ ui.search_trigger < MaxTrigger
    /\ \E q \in PageQueries :
          PageUpdate([ui EXCEPT !.query = q, !.current_page = 0,
                                !.search_trigger = @ + 1], FALSE)

\* SearchModeToggle: on:change=move |_| mode.set(mode_value)
SetMode ==
    \E m \in {"Bm25", "Vector", "Hybrid"} \ {ui.mode} :
        PageUpdate([ui EXCEPT !.mode = m], FALSE)

\* toggle_category: retain the others if selected, push otherwise
ToggleCategoryIn(u, category) ==
    [u EXCEPT !.selected_categories =
                  IF category \in Range(@)
                  THEN SelectSeq(@, LAMBDA c : c # category)
                  ELSE Append(@, category)]

\* CategoryFacets: a click on the checkbox of a category the facets list
ToggleCategory ==
    \E i \in 1..Len(resp.category_facets) :
        /\ resp.category_facets[i].value \in PageCategories
        /\ PageUpdate(ToggleCategoryIn(ui, resp.category_facets[i].value),
                      FALSE)

\* PriceRangeFilter apply_min, on blur of the Min input
ApplyPriceMin ==
    \E v \in PagePrices \ {ui.price_min} :
        PageUpdate([ui EXCEPT !.price_min = v], FALSE)

\* PriceRangeFilter apply_max, on blur of the Max input
ApplyPriceMax ==
    \E v \in PagePrices \ {ui.price_max} :
        PageUpdate([ui EXCEPT !.price_max = v], FALSE)

\* RatingFilter: on:click=move |_| min_rating.set(value)
SetMinRating ==
    \E v \in PageRatings \ {ui.min_rating} :
        PageUpdate([ui EXCEPT !.min_rating = v], FALSE)

\* InStockToggle: in_stock_only.update(|v| *v = !*v)
ToggleInStock ==
    PageUpdate([ui EXCEPT !.in_stock_only = ~@], FALSE)

\* SortDropdown: sort.set(new_sort)
SetSort ==
    \E o \in PageSorts \ {ui.sort_by} :
        PageUpdate([ui EXCEPT !.sort_by = o], FALSE)

\* fault: a clear that also resets the sort option
Cleared_SortToo(u) ==
    [u EXCEPT !.selected_categories = <<>>, !.price_min = None,
              !.price_max = None, !.min_rating = None,
              !.in_stock_only = FALSE, !.current_page = 0,
              !.sort_by = "Relevance"]

\* on_clear_filters: the six set(..) of the callback
Cleared(u) ==
    [u EXCEPT !.selected_categories = <<>>, !.price_min = None,
              !.price_max = None, !.min_rating = None,
              !.in_stock_only = FALSE, !.current_page = 0]

\* FilterPanel: a click on Clear All
ClearFilters == PageUpdate(Cleared(ui), TRUE)

\* <Show when=move || { total_count.get() > 0 }> inside Some(Ok(_))
PaginationShown == pc = "done" /\ resp.total_count > 0

\* Pagination of the page: on:click=go_next
PageNext ==
    /\ PaginationShown
    /\ PageUpdate([ui EXCEPT !.current_page =
                                 GoNext(@, resp.total_count, PageSize)], FALSE)

\* Pagination of the page: on:click=go_prev
PagePrev ==
    /\ PaginationShown
    /\ PageUpdate([ui EXCEPT !.current_page = GoPrev(@)], FALSE)

\* the page is mounted and its resource has run once, on the empty query
InitPage ==
    /\ catalog = Items(PageRows)
    /\ pc = "done"
    /\ req = NoRequest
    /\ resp = EmptyResults
    /\ call = NoCall
    /\ prev = NoPrev
    /\ ui = InitialUi
    /\ pager = NoPager
    /\ db = InitialDb
    /\ tasks = NoTasks

NextPageUi ==
    \/ Submit
    \/ SetMode
    \/ ToggleCategory
    \/ ApplyPriceMin
    \/ ApplyPriceMax
    \/ SetMinRating
    \/ ToggleInStock
    \/ SetSort
    \/ ClearFilters
    \/ PageNext
    \/ PagePrev

SpecPage == InitPage /\ [][NextPageUi]_vars

\* ------------------------------------------------- api/db.rs: the pool slots

\* the pools a caller may pass
Pools == {"A", "B"}

DbThreads == 1..NumThreads

\* a thread outside the functions of db.rs
IdleThread == [op |-> "none", arg |-> None, at |-> "idle", call |-> 0]

\* fault: a set that replaces the stored pool
PoolSet_Overwrite(slot, pool) == Some(pool)

\* POOL.set(pool): OnceLock::set stores the value only in an empty cell
PoolSet(slot, pool) == IF slot = None THEN Some(pool) ELSE slot

\* a thread enters a function of db.rs; the call is entered in the history
\* with the time of its invocation
DbCall(t, op, arg, first) ==
    /\ db.threads[t].at = "idle"
    /\ Len(db.history) < MaxCalls
    /\ db' = [db EXCEPT
                !.threads[t] = [op |-> op, arg |-> arg, at |-> first,
                                call |-> Len(db.history) + 1],
                !.history = Append(@, [op |-> op, arg |-> arg,
                                       inv |-> db.clock + 1, ret |-> 0,
                                       result |-> None]),
                !.clock = @ + 1]

\* the db record after thread t returns from its call with a result
DbReturn(d, t, result) ==
    [d EXCEPT !.threads[t] = IdleThread,
              !.history[d.threads[t].call].ret = d.clock + 1,
              !.history[d.threads[t].call].result = result,
              !.clock = @ + 1]

\* pub fn init_db(pool) is called
InitDbCall(t) == \E pool \in Pools : DbCall(t, "init_db", Some(pool), "set")

\* if POOL.set(pool).is_err() { warn } else { info }, and the return
InitDbSet(t) ==
    /\ db.threads[t].at = "set"
    /\ db' = DbReturn([db EXCEPT !.POOL = PoolSet(@, db.threads[t].arg[1])],
                      t, None)

\* pub fn set_test_pool(pool) is called
SetTestPoolCall(t) ==
    \E pool \in Pools : DbCall(t, "set_test_pool", Some(pool), "lock")

\* let guard = TEST_POOL_OVERRIDE.lock().unwrap(), in set_test_pool and in
\* get_db: the thread waits while another holds the mutex
DbLock(t) ==
    /\ db.threads[t].at = "lock"
    /\ db.mutex = 0
    /\ db' = [db EXCEPT !.mutex = t, !.threads[t].at = "locked"]

\* *guard = Some(pool); the guard is dropped at the return
SetTestPoolWrite(t) ==
    /\ db.threads[t].at = "locked"
    /\ db.threads[t].op = "set_test_pool"
    /\ db' = DbReturn([db EXCEPT !.TEST_POOL_OVERRIDE = db.threads[t].arg,
                                 !.mutex = 0], t, None)

\* pub fn get_db() is called
GetDbCall(t) == DbCall(t, "get_db", None, "lock")

\* if let Some(ref pool) = *guard { return Some(pool.clone()); }, else the
\* guard is dropped at the end of the block and the function goes on
GetDbOverride(t) ==
    /\ db.threads[t].at = "locked"
    /\ db.threads[t].op = "get_db"
    /\ \/ /\ db.TEST_POOL_OVERRIDE # None
          /\ db' = DbReturn([db EXCEPT !.mutex = 0], t,
                            Some(db.TEST_POOL_OVERRIDE))
       \/ /\ db.TEST_POOL_OVERRIDE = None
          /\ db' = [db EXCEPT !.mutex = 0, !.threads[t].at = "pool"]

\* let pool = POOL.get().cloned(); ...; pool
GetDbPool(t) ==
    /\ db.threads[t].at = "pool"
    /\ db' = DbReturn(db, t, Some(db.POOL))

\* the process starts: both statics empty, every thread outside db.rs
InitDb ==
    /\ catalog = Items(SmallRows)
    /\ pc = "idle"
    /\ req = NoRequest
    /\ resp = EmptyResults
    /\ call = NoCall
    /\ prev = NoPrev
    /\ ui = InitialUi
    /\ pager = NoPager
    /\ db = [InitialDb EXCEPT !.threads = [t \in DbThreads |-> IdleThread]]
    /\ tasks = NoTasks

NextDb ==
    /\ \E t \in DbThreads :
          \/ InitDbCall(t)
          \/ InitDbSet(t)
          \/ SetTestPoolCall(t)
          \/ DbLock(t)
          \/ SetTestPoolWrite(t)
          \/ GetDbCall(t)
          \/ GetDbOverride(t)
          \/ GetDbPool(t)
    /\ UNCHANGED <<catalog, pc, req, resp, call, prev, ui, pager, tasks>>

SpecDb == InitDb /\ [][NextDb]_vars

\* ------------------------------------------- searches spawned on one pool

\* the tasks spawned on clones of the pool
Tasks == 1..NumTasks

\* what the spawned searches are called with
TaskModes == {"Bm25", "Vector", "Hybrid"}
TaskQueries == {<<"*">>, <<"item">>}
TaskFilters == {[DefaultFilters EXCEPT !.page_size = 10]}

\* a task that has not been spawned
IdleTask ==
    [ state |-> "idle", mode |-> "None", query |-> <<>>,
      filters |-> DefaultFilters, embedding |-> None, scan |-> "asc",
      sent |-> 0, resp |-> EmptyResults ]

\* tokio::spawn(async move { search_.._with_schema(&pool, &query, &filters,
\* &schema).await }): the task owns its query, its filters and its clone of
\* the pool; search_vector and search_hybrid draw their query embedding
\* before the first catalog query, search_bm25 draws none
TaskSpawn(t) ==
    /\ tasks[t].state = "idle"
    /\ \E mode \in TaskModes, query \in TaskQueries, filters \in TaskFilters,
          e \in Embeddings :
          /\ mode = "Bm25" => e = 1
          /\ tasks' = [tasks EXCEPT ![t] =
                [IdleTask EXCEPT
                    !.state = "running", !.mode = mode, !.query = query,
                    !.filters = filters,
                    !.embedding =
                        IF mode = "Bm25" THEN None
                        ELSE Some(GenerateQueryEmbedding(
                                      NormalizeQuery(query), e))]]
    /\ UNCHANGED <<catalog, pc, req, resp, call, prev, ui, pager, db>>

\* the embedding the call of a task binds (none is bound by search_bm25)
TaskEmbedding(task) ==
    IF task.embedding = None THEN 1 ELSE task.embedding[1]

\* the SearchResults the function of a task builds from its catalog queries
TaskResponse(task, scan) ==
    SearchProducts(task.mode, catalog,
                   SearchProductsCall(task.mode, catalog, task.query,
                                      TaskEmbedding(task), scan),
                   task.filters)

\* the next catalog query of a task returns Ok: every query is a SELECT on
\* the items table, through a connection of the pool; the row query comes
\* first and takes tied rows in the order the engine hands them out; after
\* the last query the function returns Ok(SearchResults)
TaskQuery(t) ==
    /\ tasks[t].state = "running"
    /\ tasks[t].sent < Len(QueryPlan(tasks[t].mode))
    /\ \E scan \in ScanOrders :
          /\ tasks[t].sent > 0 => scan = tasks[t].scan
          /\ LET last == tasks[t].sent + 1 = Len(QueryPlan(tasks[t].mode))
             IN  tasks' = [tasks EXCEPT ![t] =
                    [@ EXCEPT
                        !.scan = scan,
                        !.sent = @ + 1,
                        !.state = IF last THEN "done" ELSE "running",
                        !.resp = IF last THEN TaskResponse(tasks[t], scan)
                                 ELSE EmptyResults]]
    /\ UNCHANGED <<catalog, pc, req, resp, call, prev, ui, pager, db>>

\* the next catalog query of a task returns Err and `.await?` returns it
TaskFail(t) ==
    /\ tasks[t].state = "running"
    /\ tasks[t].sent < Len(QueryPlan(tasks[t].mode))
    /\ tasks' = [tasks EXCEPT ![t] =
                    [@ EXCEPT !.state = "failed", !.resp = EmptyResults]]
    /\ UNCHANGED <<catalog, pc, req, resp, call, prev, ui, pager, db>>

Spawn == \E t \in Tasks : TaskSpawn(t)

AwaitQuery == \E t \in Tasks : TaskQuery(t)

QueryError == \E t \in Tasks : TaskFail(t)

\* a pool over the small catalog and no task spawned yet
InitTasks ==
    /\ catalog = Items(SmallRows)
    /\ pc = "idle"
    /\ req = NoRequest
    /\ resp = EmptyResults
    /\ call = NoCall
    /\ prev = NoPrev
    /\ ui = InitialUi
    /\ pager = NoPager
    /\ db = InitialDb
    /\ tasks = [t \in Tasks |-> IdleTask]

NextTasks == Spawn \/ AwaitQuery \/ QueryError

SpecTasks == InitTasks /\ [][NextTasks]_vars

\* ================================================================== claims

Done(mode) == pc = "done" /\ req.mode = mode

Ids(rows) == {rows[i].id : i \in 1..Len(rows)}

ResultIds == {resp.results[i].product.id : i \in 1..Len(resp.results)}

CatalogRows == Range(catalog)

\* the query after the wildcard rule of the request in flight
Normalized == IF Trim(req.query) = <<"*">> THEN <<>> ELSE req.query

\* a row satisfies the text predicate of the row query
TextMatches(p) == TextPredicate(p, Normalized)

\* each active filter of the request, stated on a product
PriceMinHolds(p, f) == f.price_min # None => p.price >= f.price_min[1]
PriceMaxHolds(p, f) == f.price_max # None => p.price <= f.price_max[1]
CategoryHolds(p, f) ==
    f.categories # <<>> => \E k \in 1..Len(f.categories) : p.category = f.categories[k]
MinRatingHolds(p, f) == f.min_rating # None => p.rating >= f.min_rating[1]
InStockHolds(p, f) == f.in_stock_only => p.in_stock

AllFiltersHold(p, f) ==
    /\ PriceMinHolds(p, f) /\ PriceMaxHolds(p, f) /\ CategoryHolds(p, f)
    /\ MinRatingHolds(p, f) /\ InStockHolds(p, f)

\* C1: for every lexical search, total_count equals the number of catalog rows
\* that satisfy the text predicate and every filter of the row query, the
\* category allow-list included.
C1_CountMirrorsRowQuery ==
    Done("Bm25") =>
        resp.total_count =
            Cardinality({p \in CatalogRows :
                            TextMatches(p) /\ AllFiltersHold(p, req.filters)})

\* C2: every row returned by a lexical, vector or hybrid search satisfies each
\* active filter: price_min, price_max, category allow-list, min_rating,
\* in_stock_only.
C2_FilterConjunction ==
    pc = "done" =>
        \A i \in 1..Len(resp.results) :
            LET p == resp.results[i].product
            IN  /\ PriceMinHolds(p, req.filters)
                /\ PriceMaxHolds(p, req.filters)
                /\ CategoryHolds(p, req.filters)
                /\ MinRatingHolds(p, req.filters)
                /\ InStockHolds(p, req.filters)

\* C2 witness: a hybrid search has returned rows under a request with every
\* filter set, from a catalog holding, for each filter, a row it excludes
C2_Witness ==
    /\ pc = "done"
    /\ req.mode = "Hybrid"
    /\ Len(resp.results) >= 2
    /\ req.filters.categories # <<>> /\ req.filters.price_min # None
    /\ req.filters.price_max # None /\ req.filters.min_rating # None
    /\ req.filters.in_stock_only
    /\ \E p \in CatalogRows : ~PriceMinHolds(p, req.filters)
    /\ \E p \in CatalogRows : ~PriceMaxHolds(p, req.filters)
    /\ \E p \in CatalogRows : ~CategoryHolds(p, req.filters)
    /\ \E p \in CatalogRows : ~MinRatingHolds(p, req.filters)
    /\ \E p \in CatalogRows : ~InStockHolds(p, req.filters)


Abs(x) == IF x < 0 THEN 0 - x ELSE x

\* 1e-3 in score units
Tolerance == ScoreScale \div 1000

\* C3: for every row of a hybrid response, combined_score equals
\* 0.3 x bm25_score + 0.7 x vector_score of that row within 1e-3, whatever the
\* request's query and filters.
C3_HybridWeighting ==
    Done("Hybrid") =>
        \A i \in 1..Len(resp.results) :
            LET r == resp.results[i]
            IN  (r.bm25_score # None /\ r.vector_score # None) =>
                    Abs(10 * r.combined_score
                        - (3 * r.bm25_score[1] + 7 * r.vector_score[1]))
                        <= 10 * Tolerance

\* C3 witness: a hybrid row with a positive lexical score and a non-zero
\* vector score whose weighted sum is not a whole number of score units
C3_Witness ==
    /\ Done("Hybrid")
    /\ \E i \in 1..Len(resp.results) :
          LET r == resp.results[i]
          IN  /\ r.bm25_score # None /\ r.vector_score # None
              /\ r.bm25_score[1] > 0
              /\ r.vector_score[1] # 0
              /\ (3 * r.bm25_score[1] + 7 * r.vector_score[1]) % 10 # 0
              /\ r.combined_score # 0

\* C4: the fused candidate set holds exactly one entry for each product id of
\* the union of the lexical and the vector candidates; an entry absent from
\* the lexical candidates has bm25_score 0, one absent from the vector
\* candidates has vector_score 0.
C4_FullOuterJoin ==
    Done("Hybrid") =>
        LET b_ids == Ids(call.bm25_results)
            v_ids == Ids(call.vector_results)
            c     == call.combined
        IN  /\ Ids(c) = b_ids \cup v_ids
            /\ \A i, j \in 1..Len(c) : c[i].id = c[j].id => i = j
            /\ \A i \in 1..Len(c) :
                  /\ c[i].id \notin b_ids => c[i].bm25_score = 0
                  /\ c[i].id \notin v_ids => c[i].vector_score = 0

\* C4 witness: the fused set holds a product of both candidate sets, one of
\* the lexical candidates only and one of the vector candidates only
C4_Witness ==
    /\ Done("Hybrid")
    /\ \E i \in 1..Len(call.combined) :
          /\ call.combined[i].id \in Ids(call.bm25_results)
          /\ call.combined[i].id \in Ids(call.vector_results)
    /\ \E i \in 1..Len(call.combined) :
          /\ call.combined[i].id \in Ids(call.bm25_results)
          /\ call.combined[i].id \notin Ids(call.vector_results)
          /\ call.combined[i].bm25_score > 0
    /\ \E i \in 1..Len(call.combined) :
          /\ call.combined[i].id \notin Ids(call.bm25_results)
          /\ call.combined[i].id \in Ids(call.vector_results)
          /\ call.combined[i].vector_score # 0

\* the merged candidates of the call in flight that pass every filter
FilteredCandidates ==
    { id \in Ids(call.bm25_results) \cup Ids(call.vector_results) :
        AllFiltersHold(catalog[id], req.filters) }

\* C5: in hybrid search the lexical candidates are the 100 best-scored rows
\* under the text predicate alone and the vector candidates the 100 nearest
\* rows of the whole table, whatever the filters; the filters act on the
\* merged set only: every returned row is a candidate, a page is cut from the
\* filtered candidates, of which there are at most 200.
C5_CandidateWindows ==
    Done("Hybrid") =>
        LET b_ids    == Ids(call.bm25_results)
            v_ids    == Ids(call.vector_results)
            matching == {p \in CatalogRows : TextMatches(p)}
            e        == call.embedding[1]
            offset   == req.filters.page * req.filters.page_size
        IN  /\ b_ids \subseteq {p.id : p \in matching}
            /\ Cardinality(b_ids) = Min2(100, Cardinality(matching))
            /\ \A p \in matching : p.id \notin b_ids =>
                  \A id \in b_ids :
                      Coalesce(PdbScore(catalog[id], Normalized), 0)
                          >= Coalesce(PdbScore(p, Normalized), 0)
            /\ Cardinality(v_ids) = Min2(100, Len(catalog))
            /\ \A p \in CatalogRows : p.id \notin v_ids =>
                  \A id \in v_ids :
                      CosineDistance(catalog[id], e) <= CosineDistance(p, e)
            /\ ResultIds \subseteq FilteredCandidates
            /\ Cardinality(FilteredCandidates) <= 200
            /\ req.filters.page <= MaxPage =>
                  Len(resp.results) =
                     Min2(req.filters.page_size,
                          Max2(0, Cardinality(FilteredCandidates) - offset))

\* C5 witness: a first page large enough for every candidate has been
\* returned under a narrowing request, and a product that matches the text
\* and passes every filter is not on it: it lies outside both windows
C5_Witness ==
    /\ Done("Hybrid")
    /\ req.filters.page = 0
    /\ req.filters.page_size >= Len(catalog)
    /\ Len(resp.results) > 0
    /\ req.filters.categories # <<>>
    /\ \E p \in CatalogRows :
          /\ TextMatches(p)
          /\ AllFiltersHold(p, req.filters)
          /\ p.id \notin Ids(call.bm25_results)
          /\ p.id \notin Ids(call.vector_results)
          /\ p.id \notin ResultIds

\* the score a mode ranks by, a missing score read as 0
RankScore(r, mode) ==
    CASE mode = "Bm25"   -> Coalesce(r.bm25_score, 0)
      [] mode = "Vector" -> Coalesce(r.vector_score, 0)
      [] mode = "Hybrid" -> r.combined_score

\* C6: with sort_by = Relevance the returned sequence is non-increasing in
\* bm25_score (lexical), vector_score (vector), combined_score (hybrid).
C6_ScoreOrdering ==
    (pc = "done" /\ req.filters.sort_by = "Relevance") =>
        \A i \in 1..(Len(resp.results) - 1) :
            RankScore(resp.results[i], req.mode)
                >= RankScore(resp.results[i + 1], req.mode)

\* C6 witness: a lexical search by relevance has returned rows of at least
\* two different scores
C6_Witness ==
    /\ Done("Bm25")
    /\ req.filters.sort_by = "Relevance"
    /\ Len(resp.results) >= 2
    /\ RankScore(resp.results[1], "Bm25")
          > RankScore(resp.results[Len(resp.results)], "Bm25")

\* C7: a lexical search whose query is "*", whitespace around it or not, sends
\* the empty query to the engine and returns what the lexical search with the
\* empty query returns for the same filters: rows, total_count and facets.
C7_WildcardEquivalence ==
    (Done("Bm25") /\ Trim(req.query) = <<"*">>) =>
        /\ call.engine_query = <<>>
        /\ resp = Bm25Response(catalog, Bm25Call(catalog, <<>>, call.scan),
                               req.filters)

\* C7 witness: a lexical search for " * " has returned rows
C7_Witness ==
    /\ Done("Bm25")
    /\ req.query = <<" ", "*", " ">>
    /\ Len(resp.results) > 0
    /\ resp.total_count > 0
    /\ Len(resp.category_facets) > 0

\* the facet entries the text-matching rows give for a column
ExactCounts(column) ==
    { [ value |-> v,
        count |-> Cardinality({p \in CatalogRows :
                                  TextMatches(p) /\ p[column] = v}) ] :
        v \in {p[column] : p \in {x \in CatalogRows : TextMatches(x)}} }

\* C8: in lexical and hybrid search the facets count the rows that satisfy the
\* row query's text predicate, whatever the filters, the sort and the page:
\* one category entry per category of a matching row with the number of such
\* rows, every brand entry with the number of matching rows of the brand, one
\* histogram entry per $50 bucket of a matching row with the number of rows.
C8_FacetsIgnoreFilters ==
    (Done("Bm25") \/ Done("Hybrid")) =>
        /\ Range(resp.category_facets) = ExactCounts("category")
        /\ Len(resp.category_facets) = Cardinality(ExactCounts("category"))
        /\ Range(resp.brand_facets) \subseteq ExactCounts("brand")
        /\ Len(resp.brand_facets) = Min2(20, Cardinality(ExactCounts("brand")))
        /\ Range(resp.price_histogram) =
              { [ min   |-> 50 * b,
                  max   |-> 50 * b + 50,
                  count |-> Cardinality({p \in CatalogRows :
                               /\ TextMatches(p)
                               /\ 5000 * b <= p.price
                               /\ p.price < 5000 * b + 5000}) ] :
                b \in {p.price \div 5000 : p \in {x \in CatalogRows : TextMatches(x)}} }

\* C8 witness: a lexical search under filters that exclude text-matching rows
\* has returned facets that count more rows than the filters let through
C8_Witness ==
    /\ Done("Bm25")
    /\ req.query = <<"sony">>
    /\ req.filters.categories # <<>>
    /\ Len(resp.category_facets) >= 2
    /\ \E p \in CatalogRows : TextMatches(p) /\ ~AllFiltersHold(p, req.filters)
    /\ \E i \in 1..Len(resp.category_facets) :
          resp.category_facets[i].value \notin Range(req.filters.categories)

\* the rows the row query of the call c selects before ORDER BY and LIMIT
MatchingRows(c) ==
    CASE req.mode = "Bm25" ->
            {p \in CatalogRows : TextMatches(p) /\ AllFiltersHold(p, req.filters)}
      [] req.mode = "Vector" ->
            {p \in CatalogRows : AllFiltersHold(p, req.filters)}
      [] req.mode = "Hybrid" ->
            {p \in CatalogRows : /\ p.id \in Ids(c.combined)
                                 /\ AllFiltersHold(p, req.filters)}

\* the value the row query of the call c orders the row p by
SortKey(p, c) ==
    CASE req.mode = "Bm25" ->
            (CASE req.filters.sort_by = "Relevance"  -> PdbScore(p, c.engine_query)
               [] req.filters.sort_by = "PriceAsc"   -> Some(p.price)
               [] req.filters.sort_by = "PriceDesc"  -> Some(p.price)
               [] req.filters.sort_by = "RatingDesc" -> Some(p.rating)
               [] req.filters.sort_by = "Newest"     -> Some(p.created_at))
      [] req.mode = "Vector" -> Some(CosineDistance(p, c.embedding[1]))
      [] req.mode = "Hybrid" ->
            Some((c.combined[CHOOSE i \in 1..Len(c.combined) :
                                c.combined[i].id = p.id]).combined_score)

\* the sort key of the call c separates every two selected rows
TieFree(c) ==
    \A p, q \in MatchingRows(c) : p.id # q.id => SortKey(p, c) # SortKey(q, c)

\* C9: for each mode, two separate calls that differ only in page (0, then 1),
\* with page size P >= 1, over an unchanged catalog with at least 2P matching
\* rows and a sort key without ties, return disjoint sets of product ids.
C9_PaginationNonOverlap ==
    ( /\ pc = "done"
      /\ prev.kind = "nextpage"
      /\ req.filters.page = 1
      /\ req.filters.page_size >= 1
      /\ Cardinality(MatchingRows(prev.call)) >= 2 * req.filters.page_size
      /\ Cardinality(MatchingRows(call)) >= 2 * req.filters.page_size
      /\ TieFree(prev.call)
      /\ TieFree(call) )
    => {prev.results[i].product.id : i \in 1..Len(prev.results)} \cap ResultIds = {}

\* C10: repeating an identical lexical or hybrid request against an unchanged
\* catalog returns identical results, in contents and in order, whenever the
\* sort key leaves no tie undecided.
C10_Idempotence ==
    ( /\ pc = "done"
      /\ prev.kind = "repeat"
      /\ req.mode \in {"Bm25", "Hybrid"}
      /\ TieFree(prev.call)
      /\ TieFree(call) )
    => resp.results = prev.results

\* C11: whenever no catalog row matches a request (price_min = price_max =
\* 999999, or a category allow-list naming no existing category), the search
\* in any of the three modes returns an empty result sequence together with
\* total_count = 0.
C11_EmptyResult ==
    ( /\ pc = "done"
      /\ \A p \in CatalogRows : ~(TextMatches(p) /\ AllFiltersHold(p, req.filters))
      /\ \A p \in CatalogRows : ~AllFiltersHold(p, req.filters) )
    => (resp.results = <<>> /\ resp.total_count = 0)

\* C12: for every successful hybrid response, total_count equals the number
\* of rows of the returned page, whatever the number of rows that match in
\* the candidate window or in the catalog.
C12_HybridCountIsPageLength ==
    Done("Hybrid") => resp.total_count = Len(resp.results)

\* C12 witness: a hybrid page shorter than the filtered candidates, which are
\* fewer than the catalog rows that pass the filters
C12_Witness ==
    /\ Done("Hybrid")
    /\ Len(resp.results) > 0
    /\ resp.total_count = Len(resp.results)
    /\ Cardinality(FilteredCandidates) > Len(resp.results)
    /\ Cardinality({p \in CatalogRows : AllFiltersHold(p, req.filters)})
          > Cardinality(FilteredCandidates)

\* C13: for every successful vector search, total_count equals the number of
\* rows of the collection, whatever the query, the filters and the page; it is
\* never smaller than the number of rows that pass the filters.
C13_VectorCountIsTableSize ==
    Done("Vector") =>
        /\ resp.total_count = Len(catalog)
        /\ resp.total_count
              >= Cardinality({p \in CatalogRows : AllFiltersHold(p, req.filters)})

\* C13 witness: a vector search under filters that some rows fail has returned
\* rows and a total_count larger than the number of rows that pass
C13_Witness ==
    /\ Done("Vector")
    /\ Len(resp.results) > 0
    /\ req.filters.in_stock_only
    /\ resp.total_count
          > Cardinality({p \in CatalogRows : AllFiltersHold(p, req.filters)})

\* no filter of the request is active
Inactive(f) ==
    /\ f.categories = <<>> /\ f.price_min = None /\ f.price_max = None
    /\ f.min_rating = None /\ f.in_stock_only = FALSE

\* the ids an unfiltered search of the request's mode has to hand out
Unfiltered ==
    IF req.mode = "Bm25" THEN {p.id : p \in {x \in CatalogRows : TextMatches(x)}}
    ELSE {p.id : p \in CatalogRows}

\* C14: an inactive filter excludes no row.  With every filter inactive, a
\* lexical search pages through exactly the rows that satisfy the text
\* predicate and a vector search through every row: a page holds distinct
\* rows of that set, as many as the set has left at its offset, and a first
\* page as large as the set holds all of it, whatever the category and the
\* stock of a row.
C14_InactiveFiltersExcludeNothing ==
    ( /\ pc = "done"
      /\ req.mode \in {"Bm25", "Vector"}
      /\ Inactive(req.filters)
      /\ req.filters.page <= MaxPage )
    => /\ ResultIds \subseteq Unfiltered
       /\ Cardinality(ResultIds) = Len(resp.results)
       /\ Len(resp.results) =
             Min2(req.filters.page_size,
                  Max2(0, Cardinality(Unfiltered)
                             - req.filters.page * req.filters.page_size))
       /\ (req.filters.page = 0 /\ req.filters.page_size >= Cardinality(Unfiltered))
             => ResultIds = Unfiltered

\* C14 witness: an unfiltered lexical search has returned every row of the
\* catalog on one page, out-of-stock rows and rows of three categories among
\* them
C14_Witness ==
    /\ Done("Bm25")
    /\ Inactive(req.filters)
    /\ Len(resp.results) = Len(catalog)
    /\ \E i \in 1..Len(resp.results) : resp.results[i].product.in_stock = FALSE
    /\ Cardinality({resp.results[i].product.category :
                       i \in 1..Len(resp.results)}) = 3

\* the row p comes strictly before the row q in the named order
Before(p, q, sort_by) ==
    CASE sort_by = "PriceAsc"   -> p.price < q.price
      [] sort_by = "PriceDesc"  -> p.price > q.price
      [] sort_by = "RatingDesc" -> p.rating > q.rating
      [] sort_by = "Newest"     -> p.created_at > q.created_at

\* C15: in lexical search sort_by = PriceAsc, PriceDesc, RatingDesc or Newest
\* overrides relevance: the returned rows are ordered by price non-decreasing,
\* price non-increasing, rating non-increasing or created_at non-increasing,
\* and the page is cut from that ordering: the row at position i of the page
\* has rank offset + i among the rows the request selects.
C15_SortOverridesRelevance ==
    ( /\ Done("Bm25")
      /\ req.filters.sort_by # "Relevance"
      /\ req.filters.page <= MaxPage )
    => LET selected == {p \in CatalogRows :
                           TextMatches(p) /\ AllFiltersHold(p, req.filters)}
           sort_by  == req.filters.sort_by
           offset   == req.filters.page * req.filters.page_size
           row(i)   == resp.results[i].product
       IN  /\ \A i \in 1..(Len(resp.results) - 1) :
                 ~Before(row(i + 1), row(i), sort_by)
           /\ \A i \in 1..Len(resp.results) :
                 /\ Cardinality({q \in selected : Before(q, row(i), sort_by)})
                       <= offset + i - 1
                 /\ Cardinality({q \in selected : ~Before(row(i), q, sort_by)})
                       >= offset + i

\* C15 witness: a second page sorted by ascending price holds two rows of
\* different prices of which the later one has the higher relevance
C15_Witness ==
    /\ Done("Bm25")
    /\ req.filters.sort_by = "PriceAsc"
    /\ req.filters.page = 1
    /\ \E i, j \in 1..Len(resp.results) :
          /\ i < j
          /\ resp.results[i].product.price < resp.results[j].product.price
          /\ resp.results[i].bm25_score # None
          /\ resp.results[j].bm25_score # None
          /\ resp.results[i].bm25_score[1] < resp.results[j].bm25_score[1]

\* C16: the result sequence of a search never has more than page_size
\* elements; with page_size = 0, which SearchFilters::default() gives, it is
\* empty for every query, mode and filter setting.
C16_PageSizeBound ==
    /\ DefaultFilters.page_size = 0
    /\ pc = "done" =>
          /\ Len(resp.results) <= req.filters.page_size
          /\ req.filters.page_size = 0 => resp.results = <<>>

\* C16 witness: a lexical search with the default filters has found rows
\* (total_count > 0) and returned none of them
C16_Witness ==
    /\ Done("Bm25")
    /\ req.filters = DefaultFilters
    /\ resp.total_count > 0
    /\ resp.results = <<>>

\* C17: for every page and page_size a SearchFilters can hold, a search is
\* never aborted by the offset computation, and the row query of a completed
\* search skipped page * page_size rows, the exact product: the 32 bits the
\* code binds as OFFSET are the whole product (its upper 32 bits are zero),
\* and a page that starts at or past the size of the catalog holds no row
C17_ExactOffset ==
    /\ pc # "panicked"
    /\ pc = "done" =>
          LET d == U32Product(ToU32(req.filters.page),
                              ToU32(req.filters.page_size))
          IN  /\ Offset(req.filters) = [hi |-> d[2], lo |-> d[1]]
              /\ d[3] = 0 /\ d[4] = 0
              /\ (req.filters.page >= 1
                    /\ req.filters.page_size >= Len(catalog))
                    => resp.results = <<>>

\* C18: when a catalog query of a search fails, the search ends as an error
\* and hands back no SearchResults, whichever query of its plan it was (the
\* row query, the count query or a facet query) and however many queries
\* before it succeeded; the queries sent are the plan up to and including
\* the failing one, each sent once; a search that completes sent every
\* query of its plan once and none of them failed
C18_FailureAbortsSearch ==
    LET plan == QueryPlan(req.mode)
        once == \A i, j \in 1..Len(call.attempted) :
                    call.attempted[i] = call.attempted[j] => i = j
    IN  /\ pc = "failed" =>
              /\ call.failed # None
              /\ resp = EmptyResults
              /\ call.facets = NoFacets
              /\ \E k \in 1..Len(plan) :
                    /\ plan[k] = call.failed[1]
                    /\ call.attempted = SubSeq(plan, 1, k)
              /\ once
        /\ pc = "done" =>
              /\ call.failed = None
              /\ call.attempted = plan
              /\ once

\* C18 witness: a lexical search has failed at its last facet query, after
\* the row query, the count query and two facet queries had succeeded
C18_Witness ==
    /\ pc = "failed"
    /\ req.mode = "Bm25"
    /\ call.failed = Some("price_histogram")
    /\ Len(call.attempted) = 5

\* a price in cents lies in a bucket whose bounds are in dollars
InBucket(p, b) ==
    b.min * CentsPerDollar <= p.price /\ p.price < b.max * CentsPerDollar

\* C19: in lexical and hybrid search every price_histogram bucket spans 50:
\* max = min + 50, and min = 50 * floor(price / 50) for each price it counts;
\* its count is the number of rows matching the text predicate with
\* min <= price < max, so every such row is counted in exactly one bucket;
\* the buckets are listed by min strictly ascending
C19_PriceHistogram ==
    (Done("Bm25") \/ Done("Hybrid")) =>
        LET h        == resp.price_histogram
            matching == {p \in CatalogRows : TextMatches(p)}
        IN  /\ \A g \in 1..Len(h) :
                  /\ h[g].max = h[g].min + 50
                  /\ h[g].count >= 1
                  /\ h[g].count = Cardinality({p \in matching : InBucket(p, h[g])})
                  /\ \A p \in matching : InBucket(p, h[g]) =>
                        h[g].min = 50 * (p.price \div (50 * CentsPerDollar))
            /\ \A p \in matching :
                  Cardinality({g \in 1..Len(h) : InBucket(p, h[g])}) = 1
            /\ \A g, k \in 1..Len(h) : g < k => h[g].min < h[k].min

\* C19 witness: a histogram of at least three buckets has been returned; a
\* matching row priced 49.99 is counted in the bucket from 0 and one priced
\* 50.00 in the bucket from 50, and some bucket counts more than one row
C19_Witness ==
    /\ Done("Bm25")
    /\ Len(resp.price_histogram) >= 3
    /\ \E p, q \in {r \in CatalogRows : TextMatches(r)} :
          /\ p.price = 4999 /\ q.price = 5000
          /\ \E g \in 1..(Len(resp.price_histogram) - 1) :
                /\ resp.price_histogram[g].min = 0
                /\ InBucket(p, resp.price_histogram[g])
                /\ resp.price_histogram[g + 1].min = 50
                /\ InBucket(q, resp.price_histogram[g + 1])
    /\ \E g \in 1..Len(resp.price_histogram) : resp.price_histogram[g].count >= 2

\* the number of rows of a set that hold v in a column
CountOf(rows, column, v) == Cardinality({p \in rows : p[column] = v})

\* the values a column takes on a set of rows
ValuesOf(rows, column) == {p[column] : p \in rows}

\* a facet list names no value twice and its counts never increase
DistinctDescending(facets) ==
    \A i, j \in 1..Len(facets) :
        /\ facets[i].value = facets[j].value => i = j
        /\ i < j => facets[i].count >= facets[j].count

\* C20: in lexical and hybrid search category_facets and brand_facets hold
\* one entry per distinct value, by count non-increasing; category_facets
\* lists exactly the categories of the rows matching the text predicate;
\* brand_facets lists brands of matching rows, 20 of them or all if there
\* are fewer, and no brand left out counts more rows than a listed one
C20_FacetLists ==
    (Done("Bm25") \/ Done("Hybrid")) =>
        LET c        == resp.category_facets
            b        == resp.brand_facets
            matching == {p \in CatalogRows : TextMatches(p)}
            brands   == ValuesOf(matching, "brand")
            listed   == {b[i].value : i \in 1..Len(b)}
            least    == IF b = <<>> THEN 0 ELSE b[Len(b)].count
        IN  /\ DistinctDescending(c)
            /\ DistinctDescending(b)
            /\ {c[i].value : i \in 1..Len(c)} = ValuesOf(matching, "category")
            /\ \A i \in 1..Len(c) :
                  c[i].count = CountOf(matching, "category", c[i].value)
            /\ listed \subseteq brands
            /\ \A i \in 1..Len(b) :
                  b[i].count = CountOf(matching, "brand", b[i].value)
            /\ Len(b) <= 20
            /\ Len(b) = Min2(20, Cardinality(brands))
            /\ \A v \in brands \ listed :
                  CountOf(matching, "brand", v) <= least

\* C20 witness: the matching rows hold more than 20 brands with unequal
\* counts, so brand_facets is cut at 20 entries and leaves brands out, and
\* category_facets holds categories with different counts
C20_Witness ==
    /\ Done("Bm25")
    /\ Cardinality({p.brand : p \in {x \in CatalogRows : TextMatches(x)}}) > 20
    /\ Len(resp.brand_facets) = 20
    /\ resp.brand_facets[1].count > resp.brand_facets[20].count
    /\ \E p \in {x \in CatalogRows : TextMatches(x)} :
          \A i \in 1..20 : resp.brand_facets[i].value # p.brand
    /\ Len(resp.category_facets) >= 2
    /\ resp.category_facets[1].count
          > resp.category_facets[Len(resp.category_facets)].count

\* C21: every vector_score that vector search returns lies in [0, 1],
\* whichever embedding the generator drew for the query
C21_VectorScoreRange ==
    Done("Vector") =>
        \A i \in 1..Len(resp.results) :
            /\ resp.results[i].vector_score # None
            /\ resp.results[i].vector_score[1] >= 0
            /\ resp.results[i].vector_score[1] <= ScoreScale

\* C29: a completed search of any mode returns at most total_count rows
C29_RowsWithinTotalCount ==
    pc = "done" => Len(resp.results) <= resp.total_count

\* C29 witness: a lexical search narrowed by category has returned rows, and
\* fewer of them than its total_count; a vector and a hybrid search have the
\* same shape of response and are checked by the same formula
C29_Witness ==
    /\ Done("Bm25")
    /\ req.filters.categories # <<>>
    /\ req.query # <<>>
    /\ Len(resp.results) >= 1
    /\ Len(resp.results) < resp.total_count

\* C30: in vector and hybrid search the sort option has no effect: with the
\* embedding the call drew, the same request under any other sort_by returns
\* the same rows in the same order, and that order is by distance ascending
\* (vector_score descending) in vector search and by combined score
\* descending in hybrid search
C30_SortByIgnored ==
    (Done("Vector") \/ Done("Hybrid")) =>
        /\ \A s \in SortOptions :
              SearchProducts(req.mode, catalog, call,
                             [req.filters EXCEPT !.sort_by = s]).results
                  = resp.results
        /\ \A i, j \in 1..Len(resp.results) : i < j =>
              resp.results[i].combined_score >= resp.results[j].combined_score
        /\ Done("Vector") =>
              \A i, j \in 1..Len(resp.results) : i < j =>
                  CosineDistance(resp.results[i].product, call.embedding[1])
                      <= CosineDistance(resp.results[j].product, call.embedding[1])

\* C30 witness: a vector search asked for ascending price has returned rows
\* in an order that is not by ascending price
C30_Witness ==
    /\ Done("Vector")
    /\ req.filters.sort_by = "PriceAsc"
    /\ \E i, j \in 1..Len(resp.results) :
          i < j /\ resp.results[i].product.price > resp.results[j].product.price

\* call a of the history returned before call b was invoked
ReturnedBefore(a, b) == a.ret # 0 /\ a.ret < b.inv

\* the calls of an operation that returned before call g was invoked
CallsBefore(op, g) ==
    {c \in Range(db.history) : c.op = op /\ ReturnedBefore(c, g)}

\* no init_db or set_test_pool call was in progress at any time of call g
Undisturbed(g) ==
    \A c \in Range(db.history) :
        c.op # "get_db" => (ReturnedBefore(c, g) \/ ReturnedBefore(g, c))

\* what get_db may return after the calls before g: the pool of a most recent
\* set_test_pool (one that no other set_test_pool wholly follows), else the
\* pool of a first init_db (one that no other init_db wholly precedes),
\* else None
ExpectedPools(g) ==
    LET sets  == CallsBefore("set_test_pool", g)
        inits == CallsBefore("init_db", g)
    IN  IF sets # {}
        THEN {Some(c.arg) : c \in {x \in sets :
                 \A y \in sets : ~ReturnedBefore(x, y)}}
        ELSE IF inits # {}
        THEN {Some(c.arg) : c \in {x \in inits :
                 \A y \in inits : ~ReturnedBefore(y, x)}}
        ELSE {Some(None)}

\* C23: a get_db that runs after init_db and set_test_pool calls, concurrent
\* ones among them, returns the pool of the most recent set_test_pool if
\* there was one, otherwise the pool of the first init_db, otherwise None;
\* the override, once set, is never cleared, and the once-cell keeps the
\* pool of the first init_db
C23_GetDbResult ==
    /\ \A k \in 1..Len(db.history) :
          LET g == db.history[k]
          IN  (g.op = "get_db" /\ g.ret # 0 /\ Undisturbed(g))
                  => g.result \in ExpectedPools(g)
    /\ \A c \in Range(db.history) :
          /\ (c.op = "set_test_pool" /\ c.ret # 0) => db.TEST_POOL_OVERRIDE # None
          /\ (c.op = "init_db" /\ c.ret # 0) => db.POOL # None

\* C23 witness: two init_db calls with different pools have returned one
\* after the other, and a get_db called after both returned the pool of
\* the first
C23_Witness ==
    \E i, j, k \in 1..Len(db.history) :
        LET a == db.history[i]
            b == db.history[j]
            g == db.history[k]
        IN  /\ a.op = "init_db" /\ b.op = "init_db" /\ a.arg # b.arg
            /\ ReturnedBefore(a, b) /\ ReturnedBefore(b, g)
            /\ g.op = "get_db" /\ g.ret # 0
            /\ g.result = Some(a.arg)

\* ceil(total_items / page_size): the least n with n * page_size >= total_items
CeilPages(total_items, page_size) ==
    CHOOSE n \in 0..Max2(total_items, 0) :
        /\ n * page_size >= total_items
        /\ \A m \in 0..(n - 1) : m * page_size < total_items

\* C26: with total_pages = ceil(total_items / page_size), a click on Next
\* adds one to current_page when current_page < total_pages - 1 and a click
\* on Previous takes one off when current_page > 0; otherwise the click
\* leaves current_page as it is; current_page stays within
\* [0, max(total_pages - 1, 0)]
C26_PaginationRange ==
    LET total_pages == CeilPages(pager.total_items, pager.page_size)
        from        == pager.last.from
    IN  /\ pager.last.click = "next" =>
              pager.current_page =
                  IF from < total_pages - 1 THEN from + 1 ELSE from
        /\ pager.last.click = "prev" =>
              pager.current_page = IF from > 0 THEN from - 1 ELSE from
        /\ pager.current_page >= 0
        /\ pager.current_page <= Max2(total_pages - 1, 0)

\* C26 witness: on the last of several pages, 13 items at 12 a page, a click
\* on Next has left the page where it was
C26_Witness ==
    /\ pager.total_items = 13
    /\ pager.page_size = 12
    /\ pager.last = [click |-> "next", from |-> 1]
    /\ pager.current_page = 1

\* C24: a step of the clear-filters callback leaves selected_categories
\* empty, price_min, price_max and min_rating None, in_stock_only false and
\* current_page 0, and does not change query, mode, sort_by or the search
\* trigger
C24_ClearFiltersFrame ==
    [][ ui'.cleared =>
          /\ ui'.selected_categories = <<>>
          /\ ui'.price_min = None
          /\ ui'.price_max = None
          /\ ui'.min_rating = None
          /\ ui'.in_stock_only = FALSE
          /\ ui'.current_page = 0
          /\ ui'.query = ui.query
          /\ ui'.mode = ui.mode
          /\ ui'.sort_by = ui.sort_by
          /\ ui'.search_trigger = ui.search_trigger ]_vars

\* C24 witness: the filters have just been cleared on a page that keeps a
\* submitted query, a mode and a sort option other than the initial ones
C24_Witness ==
    /\ ui.cleared
    /\ ui.selected_categories = <<>> /\ ui.price_min = None
    /\ ui.price_max = None /\ ui.min_rating = None
    /\ ~ui.in_stock_only /\ ui.current_page = 0
    /\ ui.query = <<"item">>
    /\ ui.mode = "Bm25"
    /\ ui.sort_by = "PriceAsc"
    /\ ui.search_trigger = 1
    /\ pc = "done" /\ req.filters.sort_by = "PriceAsc"

\* the server function was called by the last fetch of the page
ServerCalled == req.mode # "None"

\* C25 as stated: with the empty query the page shows the empty results and
\* has not called search_products; the server is only ever called with a
\* non-empty query; and a call whose engine query is empty (the predicate
\* that matches every row) comes from the query "*" alone
C25_EmptyQueryNeverSent ==
    /\ ui.query = <<>> =>
          pc = "done" /\ resp = EmptyResults /\ ~ServerCalled
    /\ ServerCalled => req.query # <<>> /\ req.query = ui.query
    /\ (ServerCalled /\ NormalizeQuery(req.query) = <<>>) =>
          ui.query = <<"*">>

\* C25 amended: as C25, but a call whose engine query is empty comes from
\* any query that is "*" once leading and trailing whitespace is removed
C25_EmptyQueryShortCut ==
    /\ ui.query = <<>> =>
          pc = "done" /\ resp = EmptyResults /\ ~ServerCalled
    /\ ServerCalled => req.query # <<>> /\ req.query = ui.query
    /\ (ServerCalled /\ NormalizeQuery(req.query) = <<>>) =>
          Trim(ui.query) = <<"*">>

\* C25 witness: the page has sent the query " * " in lexical mode and the
\* response counts every row of the catalog
C25_Witness ==
    /\ ui.query = <<" ", "*", " ">>
    /\ pc = "done"
    /\ ServerCalled
    /\ req.mode = "Bm25"
    /\ resp.total_count = Len(catalog)
    /\ Len(resp.results) = PageSize

\* C27: while the page shows a response, current_page is 0 or a page of that
\* response: current_page < ceil(total_count / page_size)
C27_PageWithinResult ==
    pc = "done" =>
        \/ ui.current_page = 0
        \/ ui.current_page < CeilPages(resp.total_count, PageSize)

\* C28: in hybrid mode the response never counts more than one page of
\* rows, so the Pagination component of the page has at most one page and
\* its Next guard is false: a click on Next leaves current_page as it is
C28_HybridSinglePage ==
    (ui.mode = "Hybrid" /\ pc = "done") =>
        /\ resp.total_count <= PageSize
        /\ CeilPages(resp.total_count, PageSize) <= 1
        /\ ~CanGoNext(ui.current_page, resp.total_count, PageSize)
        /\ GoNext(ui.current_page, resp.total_count, PageSize) = ui.current_page

\* C28 witness: a hybrid response on page 0 fills the page, more rows of
\* the catalog than a page holds pass the filters of the request, and the
\* Pagination component is shown
C28_Witness ==
    /\ ui.mode = "Hybrid"
    /\ pc = "done"
    /\ ServerCalled
    /\ ui.current_page = 0
    /\ PaginationShown
    /\ Len(resp.results) = PageSize
    /\ Cardinality({p \in CatalogRows :
            TextMatches(p) /\ AllFiltersHold(p, req.filters)}) > PageSize

\* C22: searches spawned concurrently on one pool leave the catalog as it
\* was, and a search's response depends only on its own arguments and the
\* catalog: two that were called with the same mode, query and filters, and
\* were handed tied rows in the same order, return the same SearchResults
C22_IndependentSearches ==
    /\ catalog = Items(SmallRows)
    /\ \A s, t \in Tasks :
          ( /\ tasks[s].state = "done" /\ tasks[t].state = "done"
            /\ tasks[s].mode = tasks[t].mode
            /\ tasks[s].query = tasks[t].query
            /\ tasks[s].filters = tasks[t].filters
            /\ tasks[s].scan = tasks[t].scan )
          => tasks[s].resp = tasks[t].resp

====
